---- MODULE Spec2Model ----
(***************************************************************************)
(* Model of the chat session controller (ChatInterface) of Agentic-Vision: *)
(* the streaming reducer inside handleSendMessage's setMessages updater,   *)
(* and the session state machine around it (submit, example click, reset,  *)
(* stream batches, stream completion, stream errors).                      *)
(*                                                                         *)
(* An optional JavaScript property is a tuple of length 0 (absent, i.e.    *)
(* undefined) or 1 (present); "" and false are present but falsy.          *)
(***************************************************************************)
EXTENDS Integers, Sequences, FiniteSets, TLC

\* ------------------------------------------------------------------ bounds
MaxFed == 3        \* fragments fed to the reducer in ReducerSpec
MaxBatches == 3    \* updater invocations in ReducerSpec
MaxCalls == 2      \* handleSendMessage invocations in a session
MaxClock == 1      \* Date.now() ranges over 0..MaxClock
MaxChunks == 2     \* chunks the response streams of a session yield

\* ------------------------------------------------------------- Part values
Absent == <<>>
Some(v) == <<v>>

\* a Part object with no property set: {}
NoPart ==
  [text |-> Absent, thought |-> Absent, executableCode |-> Absent,
   codeExecutionResult |-> Absent, inlineData |-> Absent]

\* JavaScript truthiness of an optional string: undefined and "" are falsy
truthyText(t) == t # Absent /\ t[1] # ""

\* JavaScript truthiness of an optional boolean: !!p.thought
truthyFlag(t) == t # Absent /\ t[1] = TRUE

\* (s || "") for an optional string
orEmpty(t) == IF truthyText(t) THEN t[1] ELSE ""

TextPart(content, flag) == [NoPart EXCEPT !.text = Some(content), !.thought = flag]
CodePart(language, code) ==
  [NoPart EXCEPT !.executableCode = Some([language |-> language, code |-> code])]
ResultPart(outcome, output) ==
  [NoPart EXCEPT !.codeExecutionResult = Some([outcome |-> outcome, output |-> output])]
DataPart(mimeType, data) ==
  [NoPart EXCEPT !.inlineData = Some([mimeType |-> mimeType, data |-> data])]

\* ------------------------------------------------- the updater, on the heap
\* A store is [objs, arrs, cur]: objs is the sequence of Part objects ever
\* allocated (a reference is an index), arrs the sequence of arrays ever
\* allocated (each a sequence of references), cur the array called
\* currentParts in the updater.

\* currentParts.push(obj), obj a fresh object
pushPart(st, obj) ==
  [st EXCEPT !.objs = Append(@, obj),
             !.arrs[st.cur] = Append(@, Len(st.objs) + 1)]

\* currentParts[lastPartIndex] = obj, obj a fresh object
replaceLast_inplace(st, obj) ==
  [st EXCEPT !.objs[st.arrs[st.cur][Len(st.arrs[st.cur])]] = obj]

replaceLast(st, obj) ==
  [st EXCEPT !.objs = Append(@, obj),
             !.arrs[st.cur][Len(st.arrs[st.cur])] = Len(st.objs) + 1]

isMergeableText(p1, p2) ==
  /\ p1.text # Absent /\ p2.text # Absent
  /\ p1.executableCode = Absent /\ p2.executableCode = Absent
  /\ p1.codeExecutionResult = Absent /\ p2.codeExecutionResult = Absent
  /\ p1.inlineData = Absent /\ p2.inlineData = Absent
  /\ truthyFlag(p1.thought) = truthyFlag(p2.thought)

\* the lastPart && lastPart.executableCode && same-language test
sameLanguage_any(lastPart, newPart) == lastPart.executableCode # Absent

sameLanguage(lastPart, newPart) ==
  /\ lastPart.executableCode # Absent
  /\ lastPart.executableCode[1].language = newPart.executableCode[1].language

\* else if (newPart.codeExecutionResult): push a copy of the result
pushResult_merging(st, newPart) ==
  LET currentParts == st.arrs[st.cur]
      lastPart == st.objs[currentParts[Len(currentParts)]]
  IN  IF /\ Len(currentParts) > 0
         /\ lastPart.codeExecutionResult # Absent
         /\ lastPart.codeExecutionResult[1].outcome = newPart.codeExecutionResult[1].outcome
      THEN replaceLast(st,
             [lastPart EXCEPT !.codeExecutionResult =
                Some([lastPart.codeExecutionResult[1] EXCEPT
                        !.output = @ \o newPart.codeExecutionResult[1].output])])
      ELSE pushPart(st, [NoPart EXCEPT !.codeExecutionResult = newPart.codeExecutionResult])

pushResult(st, newPart) ==
  pushPart(st, [NoPart EXCEPT !.codeExecutionResult = newPart.codeExecutionResult])

\* else if (newPart.inlineData): push a copy of the data
pushData(st, newPart) ==
  pushPart(st, [NoPart EXCEPT !.inlineData = newPart.inlineData])

\* a fragment none of the branches accepts: the loop body does nothing
dropped_pushing(st, newPart) == pushPart(st, TextPart("", Absent))

dropped(st, newPart) == st

\* one iteration of `for (const newPart of newParts)`
mergePart(st, newPart) ==
  LET currentParts == st.arrs[st.cur]
      lastPartIndex == Len(currentParts)
      hasLast == lastPartIndex > 0
      lastPart == st.objs[currentParts[lastPartIndex]]
  IN  IF truthyText(newPart.text)
      THEN IF hasLast /\ isMergeableText(lastPart, newPart)
           THEN replaceLast(st,
                  [lastPart EXCEPT !.text = Some(orEmpty(lastPart.text) \o newPart.text[1])])
           ELSE pushPart(st,
                  [NoPart EXCEPT !.text = newPart.text, !.thought = newPart.thought])
      ELSE IF newPart.executableCode # Absent
      THEN IF hasLast /\ sameLanguage(lastPart, newPart)
           THEN replaceLast(st,
                  [lastPart EXCEPT !.executableCode =
                     Some([lastPart.executableCode[1] EXCEPT
                             !.code = @ \o newPart.executableCode[1].code])])
           ELSE pushPart(st, [NoPart EXCEPT !.executableCode = newPart.executableCode])
      ELSE IF newPart.codeExecutionResult # Absent
      THEN pushResult(st, newPart)
      ELSE IF newPart.inlineData # Absent
      THEN pushData(st, newPart)
      ELSE IF truthyFlag(newPart.thought)
      THEN pushPart(st,
             [NoPart EXCEPT !.thought = newPart.thought, !.text = Some(orEmpty(newPart.text))])
      ELSE dropped(st, newPart)

RECURSIVE mergeAll(_, _)
mergeAll(st, newParts) ==
  IF newParts = <<>> THEN st
  ELSE mergeAll(mergePart(st, Head(newParts)), Tail(newParts))

\* const currentParts = [...lastMsg.parts]: a fresh array with the same references
copyParts_alias(st, partsRef) == [st EXCEPT !.cur = partsRef]

copyParts(st, partsRef) ==
  [st EXCEPT !.arrs = Append(@, st.arrs[partsRef]), !.cur = Len(st.arrs) + 1]

\* the updater merging a batch on its own and concatenating the outcome
updateParts_fresh(st, partsRef, newParts) ==
  LET st1 == mergeAll([st EXCEPT !.arrs = Append(@, <<>>), !.cur = Len(st.arrs) + 1],
                      newParts)
  IN [st1 EXCEPT !.arrs[st1.cur] = st.arrs[partsRef] \o st1.arrs[st1.cur]]

\* the body of the updater once lastMsg is the model message: the store after
\* it; the new message's parts is the array .cur
updateParts(st, partsRef, newParts) == mergeAll(copyParts(st, partsRef), newParts)

\* the Part values an array holds
partsOf(st, ref) == [i \in 1..Len(st.arrs[ref]) |-> st.objs[st.arrs[ref][i]]]

\* the updater on values: the parts of the new message from the parts of lastMsg
RECURSIVE refsTo(_)
refsTo(n) == IF n = 0 THEN <<>> ELSE Append(refsTo(n - 1), n)

reduce(current, newParts) ==
  LET st0 == [objs |-> current, arrs |-> <<refsTo(Len(current))>>, cur |-> 1]
      st1 == updateParts(st0, 1, newParts)
  IN  partsOf(st1, st1.cur)

\* ------------------------------------------------------------ the session
VARIABLES
  messages,        \* useState<ChatMessage[]>: the transcript
  isLoading,       \* useState(false): ChatInput is disabled while it is true
  now,             \* the last reading of Date.now()
  pc,              \* where each handleSendMessage invocation stands
  modelMessageId,  \* modelMessageId of each invocation, 0 before it is set
  chunks,          \* chunks the streams have yielded so far
  clicks,          \* handleExampleClick invocations awaiting their image
  history,         \* the history each running invocation handed to sendMessageStream
  crashed          \* an updater threw while React rendered: the tree is unmounted

mvars == <<messages, isLoading, now, pc, modelMessageId, chunks, clicks, history, crashed>>

Calls == 1..MaxCalls

\* a data URL, by its pieces; the regular expression asks for "data:", a
\* non-empty type, ";base64," and a non-empty payload
DataUrl(mimeType, data) ==
  [scheme |-> "data:", mimeType |-> mimeType, marker |-> ";base64,", data |-> data]

\* image.match(/^data:(.+);base64,(.+)$/)
matchDataUrl(image) ==
  /\ image[1].scheme = "data:" /\ image[1].mimeType # ""
  /\ image[1].marker = ";base64," /\ image[1].data # ""

\* the arguments of handleSendMessage: what the user typed and attached, or an
\* example's prompt and loaded image (a data URL, here also one with no payload)
Inputs ==
  { [text |-> "hi", image |-> Absent],
    [text |-> "", image |-> Some(DataUrl("image/png", "AAAA"))],
    [text |-> "", image |-> Some(DataUrl("image/png", ""))] }

\* the batches a chunk may carry: chunk.candidates?.[0]?.content?.parts || []
ChunkParts ==
  { <<>>,
    <<TextPart("a", Absent)>>,
    <<CodePart("PYTHON", "x<y"), ResultPart("OUTCOME_OK", "o"), TextPart("**s**", Some(TRUE))>>,
    <<TextPart("", Some(TRUE))>> }

\* userParts without the `if (userParts.length === 0)` fallback
userParts_nofallback(text, image) ==
  (IF text # "" THEN <<TextPart(text, Absent)>> ELSE <<>>)
  \o (IF image # Absent /\ matchDataUrl(image)
      THEN <<DataPart(image[1].mimeType, image[1].data)>> ELSE <<>>)

userParts(text, image) ==
  LET pushed ==
        (IF text # "" THEN <<TextPart(text, Absent)>> ELSE <<>>)
        \o (IF image # Absent /\ matchDataUrl(image)
            THEN <<DataPart(image[1].mimeType, image[1].data)>> ELSE <<>>)
  IN  IF Len(pushed) = 0 THEN <<TextPart(" ", Absent)>> ELSE pushed

\* A ChatMessage. Date.now().toString() is kept as the number: decimal
\* notation is one-to-one, and ids are only compared for equality. origin and
\* call are not fields of the program: they record which statement of which
\* invocation made the message.
Message(id, role, parts, timestamp, origin, call) ==
  [id |-> id, role |-> role, parts |-> parts, timestamp |-> timestamp,
   origin |-> origin, call |-> call]

\* one element of cleanParts before the filter: the thought flag is not copied
cleanPart(p) ==
  [NoPart EXCEPT !.text = IF truthyText(p.text) THEN p.text ELSE Absent,
                 !.inlineData = p.inlineData,
                 !.executableCode = p.executableCode,
                 !.codeExecutionResult = p.codeExecutionResult]

\* .filter(p => Object.keys(p).length > 0)
RECURSIVE cleanParts(_)
cleanParts(parts) ==
  IF parts = <<>> THEN <<>>
  ELSE IF cleanPart(Head(parts)) = NoPart THEN cleanParts(Tail(parts))
  ELSE <<cleanPart(Head(parts))>> \o cleanParts(Tail(parts))

\* the Content of one message
toContent(msg) ==
  [role |-> msg.role,
   parts |-> IF Len(cleanParts(msg.parts)) > 0 THEN cleanParts(msg.parts)
             ELSE <<TextPart(" ", Absent)>>]

\* const history = messages.map(...), messages being the handler's closure value
RECURSIVE toHistory(_)
toHistory(msgs) ==
  IF msgs = <<>> THEN <<>> ELSE <<toContent(Head(msgs))>> \o toHistory(Tail(msgs))

ApologyParts == <<TextPart("Sorry, I encountered an error. Please try again.", Absent)>>

InFlight == {"awaiting", "streaming"}

\* the state setters do nothing once the tree is unmounted
setIsLoading(v) == isLoading' = IF crashed THEN isLoading ELSE v

\* setMessages(prev => [m, ...prev]): the new message put first
appendMessage_front(m) == messages' = IF crashed THEN messages ELSE <<m>> \o messages

appendMessage(m) == messages' = IF crashed THEN messages ELSE Append(messages, m)

\* Date.now(): a reading not below the last one
Readings == now..MaxClock

\* the next invocation of handleSendMessage
nextCall == CHOOSE r \in Calls : pc[r] = "idle" /\ \A q \in Calls : pc[q] = "idle" => r <= q

\* handleSendMessage up to `await sendMessageStream(...)`; rendered is the
\* value of `messages` in the render that made this handler
sendMessage(text, image, rendered) ==
  /\ \E r \in Calls : pc[r] = "idle"
  /\ setIsLoading(TRUE)
  /\ \E t \in Readings :
       /\ now' = t
       /\ appendMessage(Message(t, "user", userParts(text, image), t, "user", nextCall))
  /\ history' = [history EXCEPT ![nextCall] = toHistory(rendered)]
  /\ pc' = [pc EXCEPT ![nextCall] = "awaiting"]
  /\ UNCHANGED <<modelMessageId, chunks, crashed>>

\* ChatInput, given disabled={isLoading}, takes no submission while disabled
inputEnabled == ~isLoading

\* ChatInput calls onSend; it is mounted and not disabled
Submit(text, image) ==
  /\ ~crashed /\ inputEnabled
  /\ sendMessage(text, image, messages)
  /\ UNCHANGED clicks

\* an example card is clicked: the cards are shown while the transcript is empty
ExampleClick ==
  /\ ~crashed /\ messages = <<>>
  /\ clicks < Cardinality({r \in Calls : pc[r] = "idle"})
  /\ clicks' = clicks + 1
  /\ UNCHANGED <<messages, isLoading, now, pc, modelMessageId, chunks, history, crashed>>

\* the image of a clicked example has loaded (or failed to): the click's
\* handleSendMessage runs, made by the render the cards were in, where
\* `messages` was []
ExampleSend(text, image) ==
  /\ clicks > 0
  /\ clicks' = clicks - 1
  /\ sendMessage(text, image, <<>>)

\* `await sendMessageStream` returns: the placeholder is appended
Resolve(r) ==
  /\ pc[r] = "awaiting"
  /\ pc' = [pc EXCEPT ![r] = "streaming"]
  /\ \E t \in Readings :
       /\ now' = t
       /\ modelMessageId' = [modelMessageId EXCEPT ![r] = t + 1]
       /\ appendMessage(Message(t + 1, "model", <<>>, t, "placeholder", r))
  /\ UNCHANGED <<isLoading, chunks, clicks, history, crashed>>

\* one iteration of `for await`: setMessages(updater), run when React renders
Chunk(r, newParts) ==
  /\ pc[r] = "streaming"
  /\ chunks < MaxChunks
  /\ chunks' = chunks + 1
  /\ IF crashed
     THEN UNCHANGED <<messages, crashed>>
     ELSE IF messages = <<>>
     THEN \* lastMsg is undefined: lastMsg.id throws a TypeError in the render
          crashed' = TRUE /\ UNCHANGED messages
     ELSE LET lastMsg == messages[Len(messages)]
          IN  /\ messages' =
                   IF lastMsg.id # modelMessageId[r] THEN messages
                   ELSE Append(SubSeq(messages, 1, Len(messages) - 1),
                               [lastMsg EXCEPT !.parts = reduce(lastMsg.parts, newParts)])
              /\ UNCHANGED crashed
  /\ UNCHANGED <<isLoading, now, pc, modelMessageId, clicks, history>>

\* finally { setIsLoading(false) }
finallyClause_skipped == UNCHANGED isLoading

finallyClause == setIsLoading(FALSE)

\* the stream is exhausted: the loop ends, the finally clause runs
StreamEnd(r) ==
  /\ pc[r] = "streaming"
  /\ pc' = [pc EXCEPT ![r] = "done"]
  /\ finallyClause
  /\ history' = [history EXCEPT ![r] = <<>>]
  /\ UNCHANGED <<messages, now, modelMessageId, chunks, clicks, crashed>>

\* the request fails: sendMessageStream rejects, or the stream throws
Throw(r) ==
  /\ pc[r] \in InFlight
  /\ pc' = [pc EXCEPT ![r] = "throwing"]
  /\ UNCHANGED <<messages, isLoading, now, modelMessageId, chunks, clicks, history, crashed>>

\* catch (error) { ... } finally { ... }
Catch(r) ==
  /\ pc[r] = "throwing"
  /\ pc' = [pc EXCEPT ![r] = "failed"]
  /\ \E t \in Readings :
       /\ now' = t
       /\ appendMessage(Message(t + 2, "model", ApologyParts, t, "error", r))
  /\ finallyClause
  /\ history' = [history EXCEPT ![r] = <<>>]
  /\ UNCHANGED <<modelMessageId, chunks, clicks, crashed>>

\* the Back button, shown while the transcript is not empty
handleBack ==
  /\ ~crashed /\ messages # <<>>
  /\ messages' = <<>>
  /\ isLoading' = FALSE
  /\ UNCHANGED <<now, pc, modelMessageId, chunks, clicks, history, crashed>>

\* ------------------------------------------------ the reducer on its own
\* The fragments a response chunk may carry (candidates[0].content.parts):
\* one content property at most, and the thought flag.
Fragments ==
  { TextPart("a", Absent), TextPart("b", Some(FALSE)),
    TextPart("a", Some(TRUE)), TextPart("", Some(TRUE)), TextPart("", Some(FALSE)),
    CodePart("PYTHON", "x"), CodePart("LANGUAGE_UNSPECIFIED", "y"),
    ResultPart("OUTCOME_OK", "o"), DataPart("image/png", "AAAA"),
    NoPart }

VARIABLES
  objs,       \* Part objects allocated so far (reference = index)
  arrs,       \* parts arrays allocated so far
  partsRef,   \* the array that is the in-progress message's parts
  fed,        \* history: every fragment delivered so far, in order
  lastBatch,  \* history: the batch of the last updater call
  prevObjs,   \* history: objs before the last updater call
  prevArrs,   \* history: arrs before the last updater call
  prevRef,    \* history: partsRef before the last updater call
  nbatches    \* history: number of updater calls

rvars == <<objs, arrs, partsRef, fed, lastBatch, prevObjs, prevArrs, prevRef, nbatches>>

vars == <<mvars, rvars>>

\* the component as mounted, and the placeholder model message: parts: []
Init ==
  /\ messages = <<>> /\ isLoading = FALSE /\ now = 0
  /\ pc = [r \in Calls |-> "idle"]
  /\ modelMessageId = [r \in Calls |-> 0]
  /\ chunks = 0
  /\ clicks = 0 /\ crashed = FALSE
  /\ history = [r \in Calls |-> <<>>]
  /\ objs = <<>> /\ arrs = << <<>> >> /\ partsRef = 1
  /\ fed = <<>> /\ lastBatch = <<>>
  /\ prevObjs = <<>> /\ prevArrs = << <<>> >> /\ prevRef = 1
  /\ nbatches = 0

\* one chunk of the stream: setMessages(updater) with newParts
Updater(newParts) ==
  /\ nbatches < MaxBatches
  /\ Len(fed) + Len(newParts) <= MaxFed
  /\ LET st == updateParts([objs |-> objs, arrs |-> arrs, cur |-> partsRef],
                           partsRef, newParts)
     IN  /\ objs' = st.objs
         /\ arrs' = st.arrs
         /\ partsRef' = st.cur
  /\ fed' = fed \o newParts
  /\ lastBatch' = newParts
  /\ prevObjs' = objs /\ prevArrs' = arrs /\ prevRef' = partsRef
  /\ nbatches' = nbatches + 1

RNext ==
  \E n \in 0..(MaxFed - Len(fed)) :
    \E newParts \in [1..n -> Fragments] : Updater(newParts) /\ UNCHANGED mvars

\* the updater applied to the batches of one stream, from the placeholder on
ReducerSpec == Init /\ [][RNext]_vars

\* the in-progress message's parts, before and after the last updater call
curParts == partsOf([objs |-> objs, arrs |-> arrs], partsRef)
prevParts == partsOf([objs |-> prevObjs, arrs |-> prevArrs], prevRef)

\* ------------------------------------------------------ the specifications
Next ==
  \/ \E in \in Inputs : Submit(in.text, in.image) /\ UNCHANGED rvars
  \/ ExampleClick /\ UNCHANGED rvars
  \/ \E in \in Inputs : ExampleSend(in.text, in.image) /\ UNCHANGED rvars
  \/ \E r \in Calls : Resolve(r) /\ UNCHANGED rvars
  \/ \E r \in Calls, newParts \in ChunkParts : Chunk(r, newParts) /\ UNCHANGED rvars
  \/ \E r \in Calls : StreamEnd(r) /\ UNCHANGED rvars
  \/ \E r \in Calls : Throw(r) /\ UNCHANGED rvars
  \/ \E r \in Calls : Catch(r) /\ UNCHANGED rvars
  \/ handleBack /\ UNCHANGED rvars

\* the session
Spec == Init /\ [][Next]_vars

\* the session, with the continuation of a rejected await always run: a
\* settled promise's reaction is a queued microtask
FairSpec == Spec /\ \A r \in Calls : WF_vars(Catch(r) /\ UNCHANGED rvars)

\* ------------------------------------------------ reading the reducer's run
isTextPart(p) ==
  /\ p.text # Absent /\ p.executableCode = Absent
  /\ p.codeExecutionResult = Absent /\ p.inlineData = Absent

isCodePart(p) == p.text = Absent /\ p.executableCode # Absent

isThought(p) == truthyFlag(p.thought)

lastOf(q) == q[Len(q)]

frontOf(q) == SubSeq(q, 1, Len(q) - 1)

isPrefix(q, r) == Len(q) <= Len(r) /\ SubSeq(r, 1, Len(q)) = q

RECURSIVE concatText(_)
concatText(frags) ==
  IF frags = <<>> THEN "" ELSE Head(frags).text[1] \o concatText(Tail(frags))

\* the parts the last updater call held after the first k fragments of its batch
stepParts(k) ==
  LET st == mergeAll(copyParts([objs |-> prevObjs, arrs |-> prevArrs, cur |-> prevRef],
                               prevRef),
                     SubSeq(lastBatch, 1, k))
  IN  partsOf(st, st.cur)

Steps == 1..Len(lastBatch)

\* C1: a non-empty run of Text fragments that all carry the same thought flag,
\* fed to an empty message in any split into batches, leaves exactly one Text
\* element whose content is the concatenation of the fragments' contents.
C1_OneTextElement ==
  ( /\ fed # <<>>
    /\ \A i \in 1..Len(fed) : isTextPart(fed[i])
    /\ \A i, j \in 1..Len(fed) : isThought(fed[i]) = isThought(fed[j]) )
  => /\ Len(curParts) = 1
     /\ isTextPart(curParts[1])
     /\ isThought(curParts[1]) = isThought(fed[1])
     /\ curParts[1].text = Some(concatText(fed))

\* C2: a Text fragment changes the last element only if that element is a Text
\* element with the same thought flag; a Text fragment whose flag differs from
\* the last Text element is appended as a new Text element.
C2_FlagSplitsRun ==
  \A k \in Steps :
    LET f == lastBatch[k]
        mid == stepParts(k - 1)
        res == stepParts(k)
        sameFlagText == /\ mid # <<>> /\ isTextPart(lastOf(mid))
                        /\ isThought(lastOf(mid)) = isThought(f)
    IN  isTextPart(f) =>
          /\ ~sameFlagText => isPrefix(mid, res)
          /\ ( /\ mid # <<>> /\ isTextPart(lastOf(mid))
               /\ isThought(lastOf(mid)) # isThought(f) )
             => /\ res = Append(mid, lastOf(res))
                /\ isTextPart(lastOf(res))
                /\ lastOf(res).text = f.text
                /\ isThought(lastOf(res)) = isThought(f)

\* C3: an ExecutableCode fragment is concatenated onto the last element exactly
\* when that element is an ExecutableCode element of the same language, and is
\* appended as a new element otherwise; the elements before the last stay.
C3_CodeMergesOnSameLanguage ==
  \A k \in Steps :
    LET f == lastBatch[k]
        mid == stepParts(k - 1)
        res == stepParts(k)
        code == f.executableCode[1]
    IN  isCodePart(f) =>
          IF /\ mid # <<>> /\ isCodePart(lastOf(mid))
             /\ lastOf(mid).executableCode[1].language = code.language
          THEN res = Append(frontOf(mid),
                            CodePart(code.language,
                                     lastOf(mid).executableCode[1].code \o code.code))
          ELSE res = Append(mid, CodePart(code.language, code.code))

C3_Witness ==
  /\ fed = <<CodePart("PYTHON", "x"), CodePart("PYTHON", "x"),
             CodePart("LANGUAGE_UNSPECIFIED", "y")>>
  /\ curParts = <<CodePart("PYTHON", "xx"), CodePart("LANGUAGE_UNSPECIFIED", "y")>>

\* C4: a CodeExecutionResult or InlineData fragment adds exactly one element at
\* the end and changes no existing element, whatever the last element is.
C4_ResultAndDataAppend ==
  \A k \in Steps :
    LET f == lastBatch[k]
        mid == stepParts(k - 1)
        res == stepParts(k)
    IN  /\ (f.text = Absent /\ f.executableCode = Absent /\ f.codeExecutionResult # Absent)
             => res = Append(mid, ResultPart(f.codeExecutionResult[1].outcome,
                                             f.codeExecutionResult[1].output))
        /\ (f.text = Absent /\ f.executableCode = Absent /\ f.codeExecutionResult = Absent
              /\ f.inlineData # Absent)
             => res = Append(mid, DataPart(f.inlineData[1].mimeType, f.inlineData[1].data))

C4_Witness ==
  /\ nbatches = 2
  /\ lastBatch = <<ResultPart("OUTCOME_OK", "o"), DataPart("image/png", "AAAA")>>
  /\ curParts = <<ResultPart("OUTCOME_OK", "o"), ResultPart("OUTCOME_OK", "o"),
                  DataPart("image/png", "AAAA")>>

\* C5: for a Text fragment, merge or append is decided by the kind and thought
\* flag of the last element alone, whatever the contents: it is concatenated
\* onto a last Text element with the same flag, adding no element, and is
\* appended as a new Text element otherwise; it is never dropped.
C5_EmptyTextMergesLikeAnyText ==
  \A k \in Steps :
    LET f == lastBatch[k]
        mid == stepParts(k - 1)
        res == stepParts(k)
    IN  isTextPart(f) =>
          IF /\ mid # <<>> /\ isTextPart(lastOf(mid))
             /\ isThought(lastOf(mid)) = isThought(f)
          THEN /\ Len(res) = Len(mid)
               /\ frontOf(res) = frontOf(mid)
               /\ lastOf(res).text = Some(lastOf(mid).text[1] \o f.text[1])
          ELSE /\ Len(res) = Len(mid) + 1
               /\ isPrefix(mid, res)
               /\ lastOf(res).text = f.text

\* a fragment with no recognized content
unrecognized(f) ==
  /\ f.text = Absent /\ f.executableCode = Absent /\ f.codeExecutionResult = Absent
  /\ f.inlineData = Absent /\ ~truthyFlag(f.thought)

RECURSIVE withoutUnrecognized(_)
withoutUnrecognized(frags) ==
  IF frags = <<>> THEN <<>>
  ELSE IF unrecognized(Head(frags)) THEN withoutUnrecognized(Tail(frags))
  ELSE <<Head(frags)>> \o withoutUnrecognized(Tail(frags))

\* C6: a batch that contains fragments with no recognized content gives the
\* parts that the batch without those fragments gives.
C6_UnrecognizedDropped ==
  curParts = reduce(prevParts, withoutUnrecognized(lastBatch))

C6_Witness ==
  /\ nbatches = 2
  /\ lastBatch = <<NoPart, TextPart("b", Some(FALSE))>>
  /\ curParts = <<TextPart("ab", Absent)>>

\* C7: an updater call leaves every Part object and every parts array that
\* existed before it as it was, the message's parts is a new array, and each of
\* its elements is the untouched object of the old array at that position or an
\* object allocated by the call.
C7_CopyOnWrite ==
  /\ \A i \in 1..Len(prevObjs) : objs[i] = prevObjs[i]
  /\ \A a \in 1..Len(prevArrs) : arrs[a] = prevArrs[a]
  /\ nbatches > 0 => partsRef > Len(prevArrs)
  /\ \A i \in 1..Len(arrs[partsRef]) :
       \/ arrs[partsRef][i] > Len(prevObjs)
       \/ i <= Len(prevArrs[prevRef]) /\ arrs[partsRef][i] = prevArrs[prevRef][i]

\* a merge happened: the last element was replaced by a longer text
C7_Witness ==
  /\ nbatches = 2
  /\ prevParts = <<TextPart("a", Absent)>>
  /\ curParts = <<TextPart("ab", Absent)>>
  /\ arrs[prevRef] = <<1>> /\ arrs[partsRef] = <<2>>

\* ------------------------------------------------------- reading the session
Transcript == 1..Len(messages)

\* C8 (as stated): every message in the transcript has a non-empty parts
\* sequence.
C8_PartsNeverEmpty == \A i \in Transcript : messages[i].parts # <<>>

\* C8 (amended): every user message and every error message has a non-empty
\* parts sequence; a message with empty parts is the model message appended
\* for a response, which starts with parts [].
C8_OnlyPlaceholderEmpty ==
  \A i \in Transcript :
    /\ messages[i].origin \in {"user", "error"} => messages[i].parts # <<>>
    /\ messages[i].parts = <<>> =>
         /\ messages[i].role = "model"
         /\ messages[i].origin = "placeholder"
         /\ \E r \in Calls : modelMessageId[r] = messages[i].id

\* a user message made of the one-space fallback, then an empty placeholder
C8_Witness ==
  /\ Len(messages) = 2
  /\ messages[1].role = "user" /\ messages[1].parts = <<TextPart(" ", Absent)>>
  /\ messages[2].role = "model" /\ messages[2].parts = <<>>

\* C9: ChatInput is disabled whenever a request is awaiting its response or
\* streaming, and no two requests are in flight together.
C9_OneRequestInFlight ==
  /\ (\E r \in Calls : pc[r] \in InFlight) => ~inputEnabled
  /\ Cardinality({r \in Calls : pc[r] \in InFlight}) <= 1

\* C10: whenever a request has failed, its error is eventually handled and the
\* loading flag is then false.
C10_ReenabledAfterError ==
  \A r \in Calls : (pc[r] = "throwing") ~> (pc[r] = "failed" /\ ~isLoading)

\* a request failed while the flag was set, and the flag is cleared
C10_Witness ==
  /\ \E r \in Calls : pc[r] = "failed"
  /\ \A r \in Calls : pc[r] \in {"idle", "failed"}
  /\ ~crashed /\ ~isLoading
  /\ messages # <<>> /\ messages[Len(messages)].origin = "error"

\* ---------------------------------------------------------------------------
\* the error path
\* ---------------------------------------------------------------------------

\* C11: the step that handles an upstream failure appends exactly one model
\* message carrying the fixed apology, leaves every earlier message (the
\* partial model message among them) as it was, and starts no request.
C11_FailureAppendsApology ==
  [][\A r \in Calls :
       (pc[r] = "throwing" /\ pc'[r] = "failed") =>
         /\ Len(messages') = Len(messages) + 1
         /\ SubSeq(messages', 1, Len(messages)) = messages
         /\ messages'[Len(messages')].role = "model"
         /\ messages'[Len(messages')].parts = ApologyParts
         /\ \A q \in Calls : q # r => pc'[q] = pc[q] /\ history'[q] = history[q]]_vars

\* ---------------------------------------------------------------------------
\* the transcript as a whole
\* ---------------------------------------------------------------------------

\* C12: every step leaves the transcript unchanged, appends one message at
\* its end, or replaces the parts of its last message and nothing else; only
\* a reset removes messages, and it removes all of them.
C12_AppendOnly ==
  [][\/ messages' = messages
     \/ /\ Len(messages') = Len(messages) + 1
        /\ SubSeq(messages', 1, Len(messages)) = messages
     \/ /\ messages # <<>>
        /\ Len(messages') = Len(messages)
        /\ frontOf(messages') = frontOf(messages)
        /\ lastOf(messages') = [lastOf(messages) EXCEPT !.parts = lastOf(messages').parts]
     \/ handleBack /\ messages' = <<>>]_vars

\* the parts of the last message were replaced by a batch, then a message was
\* appended after it
C12_Witness ==
  /\ Len(messages) = 3
  /\ messages[1].origin = "user"
  /\ messages[2].origin = "placeholder" /\ messages[2].parts # <<>>
  /\ messages[3].origin = "error"

\* the same message in two transcripts: made by the same statement of the same
\* invocation of handleSendMessage
sameMessage(m1, m2) == m1.call = m2.call /\ m1.origin = m2.origin

\* C13: the parts of a response's model message change only in a step where a
\* batch of that message's own stream is merged into them by the reducer, so
\* never once that stream has completed or failed.
C13_OnlyOwnStreamWrites ==
  [][\A i \in Transcript : \A j \in 1..Len(messages') :
       ( /\ messages[i].origin = "placeholder"
         /\ sameMessage(messages[i], messages'[j])
         /\ messages'[j].parts # messages[i].parts ) =>
           /\ pc[messages[i].call] = "streaming"
           /\ \E newParts \in ChunkParts :
                /\ Chunk(messages[i].call, newParts)
                /\ messages'[j].parts = reduce(messages[i].parts, newParts)]_vars

\* ---------------------------------------------------------------------------
\* the history sent upstream
\* ---------------------------------------------------------------------------

\* a Part that carries nothing to send: no payload, or only empty text
emptyPart(p) ==
  /\ ~truthyText(p.text)
  /\ p.executableCode = Absent /\ p.codeExecutionResult = Absent /\ p.inlineData = Absent

\* entry is what message msg should be sent as
entryFor(entry, msg) ==
  /\ entry.role = msg.role
  /\ DOMAIN entry = {"role", "parts"}
  /\ \A k \in 1..Len(entry.parts) :
       /\ ~emptyPart(entry.parts[k])
       /\ entry.parts[k].thought = Absent
  /\ IF \A k \in 1..Len(msg.parts) : emptyPart(msg.parts[k])
     THEN entry.parts = <<TextPart(" ", Absent)>>
     ELSE /\ Len(entry.parts) = Cardinality({k \in 1..Len(msg.parts) : ~emptyPart(msg.parts[k])})
          /\ \A k \in 1..Len(entry.parts) :
               \E n \in 1..Len(msg.parts) :
                 entry.parts[k] = [msg.parts[n] EXCEPT !.thought = Absent]

\* C14: the history a turn sends upstream has one entry per message that was
\* in the transcript before the turn, in the same order and with the same
\* role; no entry has an empty Part, an id, a timestamp or a thought flag, and
\* a message with nothing to send is sent as the single Part of one space.
C14_HistoryMirrorsTranscript ==
  [][\A r \in Calls :
       (pc[r] = "idle" /\ pc'[r] = "awaiting") =>
         /\ Len(history'[r]) = Len(messages)
         /\ \A i \in Transcript : entryFor(history'[r][i], messages[i])]_vars

\* ---------------------------------------------------------------------------
\* the two renderers
\* ---------------------------------------------------------------------------

\* What a renderer shows for one Part: no section, or one section with its
\* kind, its label (the pieces of the title), its content and its badge.
Section(kind, label, content, status) ==
  <<[kind |-> kind, label |-> label, content |-> content, status |-> status]>>

\* the badge of CollapsiblePart: shown when status is set
badge(status) == IF status = "OUTCOME_OK" THEN "Success" ELSE "Error"

\* [...thoughtContent.matchAll(/\*\*([^*]+)\*\*/g)]: the bold runs of a text.
\* Of the texts the model streams only "**s**" has one.
boldMatches(thoughtContent) == IF thoughtContent = "**s**" THEN <<"s">> ELSE <<>>

\* renderPart of the live view; index counts from 1
renderPart(message, index, isStreaming) ==
  LET part == message.parts[index]
      thoughtContent == orEmpty(part.text)
      title == IF isStreaming /\ index = Len(message.parts)
                  /\ Len(boldMatches(thoughtContent)) > 0
               THEN <<"Thinking", lastOf(boldMatches(thoughtContent))>>
               ELSE <<"Thought Process">>
  IN IF truthyFlag(part.thought)
       THEN Section("thought", title, <<thoughtContent>>, Absent)
     ELSE IF part.executableCode # Absent
       THEN Section("code", <<"Executable Code", part.executableCode[1].language>>,
                    <<part.executableCode[1].code>>, Absent)
     ELSE IF part.codeExecutionResult # Absent
       THEN Section("result", <<"Execution Result">>,
                    <<part.codeExecutionResult[1].output>>,
                    Some(badge(part.codeExecutionResult[1].outcome)))
     ELSE IF truthyText(part.text)
       THEN Section("text", <<>>, <<part.text[1]>>, Absent)
     ELSE IF part.inlineData # Absent
       THEN Section("image", <<>>,
                    <<part.inlineData[1].mimeType, part.inlineData[1].data>>, Absent)
     ELSE <<>>

\* escapeHtml: & < > " ' become entities. Of the texts the model holds only
\* "x<y" has such a character.
escapeHtml(unsafe) ==
  IF unsafe = "" THEN "" ELSE IF unsafe = "x<y" THEN "x&lt;y" ELSE unsafe

\* the text a browser shows for escaped text in the exported page
shownText(html) == IF html = "x&lt;y" THEN "x<y" ELSE html

\* the badge of createCollapsible
badgeHtml(status) == IF status = "OUTCOME_OK" THEN "Success" ELSE "Error"

\* one element of partsHtml in generateHtmlFromMessages
partHtml(part) ==
  IF truthyFlag(part.thought)
    THEN IF ~truthyText(part.text) THEN <<>>
         ELSE Section("thought", <<"Thought Process">>,
                      <<shownText(escapeHtml(part.text[1]))>>, Absent)
  ELSE IF part.executableCode # Absent
    THEN Section("code", <<"Executable Code", part.executableCode[1].language>>,
                 <<shownText(escapeHtml(part.executableCode[1].code))>>, Absent)
  ELSE IF part.codeExecutionResult # Absent
    THEN Section("result", <<"Execution Result">>,
                 <<shownText(escapeHtml(part.codeExecutionResult[1].output))>>,
                 Some(badgeHtml(part.codeExecutionResult[1].outcome)))
  ELSE IF part.inlineData # Absent
    THEN Section("image", <<>>,
                 <<part.inlineData[1].mimeType, part.inlineData[1].data>>, Absent)
  ELSE IF truthyText(part.text)
    THEN Section("text", <<>>, <<shownText(escapeHtml(part.text[1]))>>, Absent)
  ELSE <<>>

\* what the live view shows for message i of the transcript
liveView(i) ==
  [k \in 1..Len(messages[i].parts) |->
     renderPart(messages[i], k, isLoading /\ i = Len(messages))]

\* what an export made now shows for message i of the transcript
exportView(i) ==
  [k \in 1..Len(messages[i].parts) |-> partHtml(messages[i].parts[k])]

\* C15: for every Part of every message of the transcript, the live view and
\* the export show the same thing: both nothing, or a section of the same
\* kind, label, content and badge.
C15_RenderersAgree == \A i \in Transcript : liveView(i) = exportView(i)

\* ---------------------------------------------------------------------------
\* batches
\* ---------------------------------------------------------------------------

\* C16: the parts after a stream are those of feeding all its fragments as one
\* batch, however the stream was split; so applying the last batch after the
\* ones before it equals applying them joined, and an empty batch leaves the
\* parts as they were.
C16_SplitIndependent ==
  /\ curParts = reduce(<<>>, fed)
  /\ \A k \in 0..Len(fed) :
       curParts = reduce(reduce(<<>>, SubSeq(fed, 1, k)), SubSeq(fed, k + 1, Len(fed)))
  /\ lastBatch = <<>> => curParts = prevParts

\* a fragment of a later batch merged into the element an earlier batch left
C16_Witness ==
  /\ nbatches >= 2
  /\ lastBatch # <<>> /\ Len(lastBatch) < Len(fed)
  /\ Len(curParts) = Len(prevParts)
  /\ curParts # prevParts

\* ---------------------------------------------------------------------------
\* stale batches
\* ---------------------------------------------------------------------------

\* the last message of the transcript is the model message of call r's stream
lastIsOwn(r) ==
  /\ messages # <<>>
  /\ lastOf(messages).origin = "placeholder"
  /\ lastOf(messages).call = r

\* C17: a batch of a stream whose model message is not the last message of
\* the transcript (the transcript being empty included) leaves the transcript
\* as it is and raises no error.
C17_StaleBatchIgnored ==
  [][\A r \in Calls : \A newParts \in ChunkParts :
       (Chunk(r, newParts) /\ ~crashed /\ ~lastIsOwn(r)) =>
         /\ messages' = messages
         /\ ~crashed']_vars

\* ---------------------------------------------------------------------------
\* the shape of the transcript
\* ---------------------------------------------------------------------------

\* C18: a non-empty transcript starts with a user message, and every model
\* message comes after the user message of the request it answers.
C18_ModelFollowsItsUser ==
  /\ messages # <<>> => messages[1].role = "user"
  /\ \A i \in Transcript :
       messages[i].role = "model" =>
         \E j \in 1..(i - 1) :
           /\ messages[j].role = "user"
           /\ messages[j].call = messages[i].call

\* C19: the ids of the messages of the transcript are pairwise distinct.
C19_IdsDistinct ==
  \A i \in Transcript : \A j \in Transcript : i # j => messages[i].id # messages[j].id

====
